---- MODULE Spec2Model ----
(***************************************************************************)
(* A model of converter.py, the TXT -> CWB converter.                      *)
(*                                                                         *)
(* Python strings are modelled as sequences of one-character strings, so   *)
(* that slicing, split, join, replace and rstrip are computed character by *)
(* character.  A list of strings is a sequence of such sequences.          *)
(***************************************************************************)
EXTENDS Integers, Sequences, FiniteSets, TLC

VARIABLES
    \* create_document_list, run on its own
    lines_of_file,  \* the argument
    line_no,        \* number of loop iterations completed
    document,       \* the working buffer
    documents,      \* the result list
    calls,          \* the arguments of the create_document calls so far
    seg_pc,         \* "loop" | "returned"
    \* main (and print_header run on its own)
    pc,             \* position in main
    filename,       \* args.input.split('/')[-1]
    file,           \* the input file: [exists, utf8, cp1252, content]
    handles,        \* one entry per file object created by open(): "open" | "closed"
    input_doc,      \* local of main: index into handles, 0 when unbound
    lines,          \* local of main: [bound |-> FALSE] or [bound |-> TRUE, val |-> ...]
    pending,        \* the exception in flight, "none" when there is none
    docs,           \* local `documents` of main
    doc_i,          \* number of Documents of the for loop fully emitted
    stdout,         \* the lines printed to standard output
    stderr,         \* what was written to the error stream
    exitcode,       \* -1 while running
    nlp_log         \* the answers of the NLP collaborator, one per print_cwb call

segVars == <<lines_of_file, line_no, document, documents, calls, seg_pc>>
mainVars == <<pc, filename, file, handles, input_doc, lines, pending, docs,
              doc_i, stdout, stderr, exitcode, nlp_log>>
vars == <<segVars, mainVars>>

----------------------------------------------------------------------------
\* Bounds

MaxLines == 3
MaxSents == 2

----------------------------------------------------------------------------
\* Strings

NL == <<"\n">>

\* the characters str.rstrip() strips that occur in the model
Whitespace == {" ", "\t", "\n", "\r"}

RECURSIVE rstrip(_)
rstrip(s) ==
    IF Len(s) > 0 /\ s[Len(s)] \in Whitespace
    THEN rstrip(SubSeq(s, 1, Len(s) - 1))
    ELSE s

\* sep.join(parts)
RECURSIVE Join(_, _)
Join(sep, parts) ==
    IF Len(parts) = 0 THEN <<>>
    ELSE IF Len(parts) = 1 THEN parts[1]
    ELSE parts[1] \o sep \o Join(sep, Tail(parts))

\* s.split(c) for a one-character separator: always at least one part
RECURSIVE Split(_, _)
Split(s, c) ==
    IF \A i \in 1..Len(s) : s[i] # c THEN <<s>>
    ELSE LET k == CHOOSE i \in 1..Len(s) :
                      s[i] = c /\ \A j \in 1..(i - 1) : s[j] # c
         IN <<SubSeq(s, 1, k - 1)>> \o Split(SubSeq(s, k + 1, Len(s)), c)

\* s.replace(old, new) for a one-character old
RECURSIVE Replace(_, _, _)
Replace(s, old, new) ==
    IF Len(s) = 0 THEN <<>>
    ELSE (IF s[1] = old THEN new ELSE <<s[1]>>) \o Replace(Tail(s), old, new)

\* s[0:n]
Prefix(s, n) == SubSeq(s, 1, IF Len(s) < n THEN Len(s) ELSE n)

\* s[0:-n]
DropLast(s, n) == SubSeq(s, 1, Len(s) - n)

----------------------------------------------------------------------------
\* create_document, create_document_list

IndexError == [raised |-> "IndexError"]

create_document_NoSkip(lines_of_document) ==
    IF Len(lines_of_document) = 0 THEN IndexError
    ELSE [header |-> lines_of_document[1],
          body |-> Join(<<" ">>, lines_of_document)]

create_document(lines_of_document) ==
    IF Len(lines_of_document) = 0 THEN IndexError
    ELSE [header |-> lines_of_document[1],
          body |-> Join(<<" ">>, Tail(lines_of_document))]

IsBoundary_NoFlush(line, lof) ==
    line = NL

\* line 52: both comparisons are by value
IsBoundary(line, lof) ==
    line = NL \/ line = lof[Len(lof)]

LoopBody_NoReset(st, line, lof) ==
    LET buf == Append(st.document, rstrip(line)) IN
    IF IsBoundary(line, lof)
    THEN [document |-> buf,
          documents |-> Append(st.documents, create_document(buf)),
          calls |-> Append(st.calls, buf)]
    ELSE [document |-> buf, documents |-> st.documents, calls |-> st.calls]

\* one iteration of the for loop, lines 49-54
LoopBody(st, line, lof) ==
    LET buf == Append(st.document, rstrip(line)) IN
    IF IsBoundary(line, lof)
    THEN [document |-> <<>>,
          documents |-> Append(st.documents, create_document(buf)),
          calls |-> Append(st.calls, buf)]
    ELSE [document |-> buf, documents |-> st.documents, calls |-> st.calls]

RECURSIVE LoopRun(_, _)
LoopRun(lof, n) ==
    IF n = 0 THEN [document |-> <<>>, documents |-> <<>>, calls |-> <<>>]
    ELSE LoopBody(LoopRun(lof, n - 1), lof[n], lof)

create_document_list(lof) == LoopRun(lof, Len(lof)).documents

----------------------------------------------------------------------------
\* Inputs of the segmenter: what readlines() can return.  Every line but the
\* last ends with "\n"; the last may or may not; no line is empty.

LineTexts == {<<>>, <<"a">>, <<"b">>, <<" ">>, <<"a", " ">>}

FullLines == {t \o NL : t \in LineTexts}
LastLines == FullLines \cup (LineTexts \ {<<>>})

SeqsUpTo(S, n) == UNION {[1..k -> S] : k \in 0..n}

Files(n) ==
    {<<>>} \cup
    {Append(f, l) : f \in SeqsUpTo(FullLines, n - 1), l \in LastLines}

SegIdle ==
    /\ lines_of_file = <<>>
    /\ line_no = 0
    /\ document = <<>>
    /\ documents = <<>>
    /\ calls = <<>>
    /\ seg_pc = "idle"

MainIdle ==
    /\ pc = "idle"
    /\ filename = <<>>
    /\ file = [exists |-> FALSE]
    /\ handles = <<>>
    /\ input_doc = 0
    /\ lines = [bound |-> FALSE]
    /\ pending = "none"
    /\ docs = <<>>
    /\ doc_i = 0
    /\ stdout = <<>>
    /\ stderr = <<>>
    /\ exitcode = -1
    /\ nlp_log = <<>>

SegInit ==
    /\ lines_of_file \in Files(MaxLines)
    /\ line_no = 0
    /\ document = <<>>
    /\ documents = <<>>
    /\ calls = <<>>
    /\ seg_pc = "loop"
    /\ MainIdle

SegStep ==
    /\ seg_pc = "loop"
    /\ line_no < Len(lines_of_file)
    /\ LET st == LoopBody([document |-> document, documents |-> documents,
                           calls |-> calls],
                          lines_of_file[line_no + 1], lines_of_file)
       IN /\ document' = st.document
          /\ documents' = st.documents
          /\ calls' = st.calls
    /\ line_no' = line_no + 1
    /\ UNCHANGED <<lines_of_file, seg_pc, mainVars>>

SegReturn ==
    /\ seg_pc = "loop"
    /\ line_no = Len(lines_of_file)
    /\ seg_pc' = "returned"
    /\ UNCHANGED <<lines_of_file, line_no, document, documents, calls, mainVars>>

SegNext == SegStep \/ SegReturn

SpecSeg == SegInit /\ [][SegNext]_vars

----------------------------------------------------------------------------
\* print_header

Q == "\""

\* 'key="{}"'.format(val)
Attr(key, val) == key \o <<"=", Q>> \o val \o <<Q>>

TextTag == <<"<", "t", "e", "x", "t">>

\* the line of line 92, from the five formatted attributes
HeaderLine(name, date, year, month, day) ==
    TextTag \o <<" ">> \o name \o <<" ">> \o date \o <<" ">> \o year
        \o <<" ">> \o month \o <<" ">> \o day \o <<">">>

print_header_KeepsDashes(fn) ==
    LET date_list == Split(Prefix(fn, 10), "_") IN
    IF Len(date_list) < 3
    THEN [raised |-> "IndexError", printed |-> <<>>]
    ELSE [raised |-> "none",
          printed |-> <<HeaderLine(
              Attr(<<"i", "d">>, DropLast(fn, 4)),
              Attr(<<"d", "a", "t", "e">>, Join(<<"_">>, date_list)),
              Attr(<<"y", "e", "a", "r">>, date_list[1]),
              Attr(<<"m", "o", "n", "t", "h">>, date_list[2]),
              Attr(<<"d", "a", "y">>, date_list[3]))>>]

print_header_SplitsWholeName(fn) ==
    LET date_list == Split(fn, "_") IN
    IF Len(date_list) < 3
    THEN [raised |-> "IndexError", printed |-> <<>>]
    ELSE [raised |-> "none",
          printed |-> <<HeaderLine(
              Attr(<<"i", "d">>, Replace(DropLast(fn, 4), "-", <<"_">>)),
              Attr(<<"d", "a", "t", "e">>, Join(<<"_">>, date_list)),
              Attr(<<"y", "e", "a", "r">>, date_list[1]),
              Attr(<<"m", "o", "n", "t", "h">>, date_list[2]),
              Attr(<<"d", "a", "y">>, date_list[3]))>>]

\* lines 84-94.  date_list[1] (line 89) and date_list[2] (line 90) raise
\* IndexError when the split gives fewer than three parts; print (line 94) is
\* the last statement, so nothing is printed when they do.
print_header(fn) ==
    LET date_list == Split(Prefix(fn, 10), "_") IN
    IF Len(date_list) < 3
    THEN [raised |-> "IndexError", printed |-> <<>>]
    ELSE [raised |-> "none",
          printed |-> <<HeaderLine(
              Attr(<<"i", "d">>, Replace(DropLast(fn, 4), "-", <<"_">>)),
              Attr(<<"d", "a", "t", "e">>, Join(<<"_">>, date_list)),
              Attr(<<"y", "e", "a", "r">>, date_list[1]),
              Attr(<<"m", "o", "n", "t", "h">>, date_list[2]),
              Attr(<<"d", "a", "y">>, date_list[3]))>>]

\* Filenames.  DatedNames follow YYYY_MM_DD_<slug>.txt; OtherNames are
\* arbitrary short prefixes, with or without a slug and an extension.

Digits == {"0", "1", "2", "3", "4", "5", "6", "7", "8", "9"}
DateDigits == {"0", "7"}
Txt == <<".", "t", "x", "t">>
Slugs == {<<"a">>, <<"a", "-", "b">>, <<"-", "a", "_", "-">>}

DatedNames ==
    {y \o <<"_">> \o m \o <<"_">> \o d \o <<"_">> \o g \o Txt :
        y \in [1..4 -> DateDigits], m \in [1..2 -> DateDigits],
        d \in [1..2 -> DateDigits], g \in Slugs}

OtherNames ==
    {p \o g \o e :
        p \in SeqsUpTo({"7", "_"}, 10),
        g \in {<<>>, <<"_", "a", "-", "b">>},
        e \in {<<>>, Txt}}

HdrInit ==
    /\ SegIdle
    /\ pc = "print_header"
    /\ filename \in DatedNames \cup OtherNames
    /\ file = [exists |-> FALSE]
    /\ handles = <<>>
    /\ input_doc = 0
    /\ lines = [bound |-> FALSE]
    /\ pending = "none"
    /\ docs = <<>>
    /\ doc_i = 0
    /\ stdout = <<>>
    /\ stderr = <<>>
    /\ exitcode = -1
    /\ nlp_log = <<>>

\* one call print_header(filename)
HdrCall ==
    /\ pc = "print_header"
    /\ LET r == print_header(filename) IN
          /\ stdout' = stdout \o r.printed
          /\ pending' = r.raised
          /\ pc' = IF r.raised = "none" THEN "printed" ELSE "raised"
    /\ UNCHANGED <<segVars, filename, file, handles, input_doc, lines, docs,
                   doc_i, stderr, exitcode, nlp_log>>

HdrNext == HdrCall

SpecHdr == HdrInit /\ [][HdrNext]_vars

----------------------------------------------------------------------------
\* print_cwb, print_footer

H1Tag == <<"<", "h", "1", ">">>
STag == <<"<", "s", ">">>
TextClose == <<"<", "/", "t", "e", "x", "t", ">">>

\* What the NLP collaborator answers to one print_cwb call: the sentences of
\* the text (first pass), each given by the number of tokens its own analysis
\* yields (second pass).  The collaborator is outside the repository; its
\* answer is any sequence of at most MaxSents sentences.
TokCounts == {1, 2}
NlpAnswers == SeqsUpTo(TokCounts, MaxSents)

\* '{word}\t{pos}\t{lemma}'.format(...) for an (abstract) token
TokenLine == <<"w">> \o <<"\t">> \o <<"P">> \o <<"\t">> \o <<"l">>

CloseTag_Unchanged(tag) == tag

\* tag.replace('<', '</'), line 75
CloseTag(tag) == Replace(tag, "<", <<"<", "/">>)

\* the lines printed for one sentence of n tokens, lines 66-75
SentenceLines(n, tag) ==
    <<tag>> \o [i \in 1..n |-> TokenLine] \o <<CloseTag(tag)>>

\* the lines one call print_cwb(text, tag) prints when the collaborator
\* answers sents
RECURSIVE print_cwb(_, _)
print_cwb(sents, tag) ==
    IF Len(sents) = 0 THEN <<>>
    ELSE SentenceLines(Head(sents), tag) \o print_cwb(Tail(sents), tag)

print_footer == <<TextClose>>

----------------------------------------------------------------------------
\* main

Encodings == {"utf-8", "cp1252"}

\* Which clause takes an exception raised in the try statement of lines
\* 112-125.  The except clauses are searched only for an exception raised in
\* the try body; one raised inside the first handler (lines 117-119) leaves
\* the statement through the finally clause, so the second clause (line 120)
\* handles nothing.
ExceptTarget(origin, exc) ==
    IF origin = "try" /\ exc = "UnicodeDecodeError" THEN "except_1"
    ELSE "finally"

\* 'Could not convert file: {}'.format(filename), line 121
Diagnostic(fn) ==
    <<"C", "o", "u", "l", "d", " ", "n", "o", "t", " ", "c", "o", "n", "v",
      "e", "r", "t", " ", "f", "i", "l", "e", ":", " ">> \o fn

\* an exception leaves main uncaught: the interpreter writes a traceback to
\* the error stream and the process ends with status 1
Uncaught(exc, line) ==
    /\ pc' = "exit"
    /\ exitcode' = 1
    /\ pending' = exc
    /\ stderr' = Append(stderr, [kind |-> "traceback", exc |-> exc, line |-> line])

MainContents ==
    {<<>>,
     <<<<"a", "\n">>>>,
     <<<<"a", "\n">>, <<"b", "\n">>>>,
     <<<<"a", "\n">>, <<"\n">>, <<"b">>>>}

MainFiles ==
    {[exists |-> FALSE]} \cup
    {[exists |-> TRUE, decodes |-> e, content |-> c] :
        e \in SUBSET Encodings, c \in MainContents}

MainNames ==
    {<<"2", "0", "1", "7", "_", "1", "1", "_", "0", "3", "_", "a", "-", "b">> \o Txt,
     <<"a">> \o Txt}

MainInit ==
    /\ SegIdle
    /\ pc = "try_open"
    /\ filename \in MainNames
    /\ file \in MainFiles
    /\ handles = <<>>
    /\ input_doc = 0
    /\ lines = [bound |-> FALSE]
    /\ pending = "none"
    /\ docs = <<>>
    /\ doc_i = 0
    /\ stdout = <<>>
    /\ stderr = <<>>
    /\ exitcode = -1
    /\ nlp_log = <<>>

OpenUtf8_PrintsFirst ==
    /\ pc = "try_open"
    /\ stdout' = stdout \o print_header(filename).printed
    /\ IF file.exists
       THEN /\ handles' = Append(handles, "open")
            /\ input_doc' = Len(handles) + 1
            /\ pc' = "try_read"
            /\ UNCHANGED pending
       ELSE /\ pending' = "FileNotFoundError"
            /\ pc' = "finally"
            /\ UNCHANGED <<handles, input_doc>>
    /\ UNCHANGED <<segVars, filename, file, lines, docs, doc_i, stderr,
                   exitcode, nlp_log>>

\* lines 113-114: open(filepath, encoding='utf-8')
OpenUtf8 ==
    /\ pc = "try_open"
    /\ IF file.exists
       THEN /\ handles' = Append(handles, "open")
            /\ input_doc' = Len(handles) + 1
            /\ pc' = "try_read"
            /\ UNCHANGED pending
       ELSE /\ pending' = "FileNotFoundError"
            /\ pc' = ExceptTarget("try", "FileNotFoundError")
            /\ UNCHANGED <<handles, input_doc>>
    /\ UNCHANGED <<segVars, filename, file, lines, docs, doc_i, stdout,
                   stderr, exitcode, nlp_log>>

\* line 115: input_doc.readlines() under UTF-8
ReadUtf8 ==
    /\ pc = "try_read"
    /\ IF "utf-8" \in file.decodes
       THEN /\ lines' = [bound |-> TRUE, val |-> file.content]
            /\ pc' = "finally"
            /\ UNCHANGED pending
       ELSE /\ UNCHANGED lines
            /\ IF ExceptTarget("try", "UnicodeDecodeError") = "except_1"
               THEN pc' = "except_open" /\ UNCHANGED pending
               ELSE pc' = "finally" /\ pending' = "UnicodeDecodeError"
    /\ UNCHANGED <<segVars, filename, file, handles, input_doc, docs, doc_i,
                   stdout, stderr, exitcode, nlp_log>>

\* lines 117-118: open(filepath, encoding='cp1252') rebinds input_doc.  The
\* first file object is never closed by the program; once unreferenced it is
\* closed or not as the interpreter's memory management decides.
OpenCp1252 ==
    /\ pc = "except_open"
    /\ \E g \in {"open", "closed"} :
           handles' = Append([handles EXCEPT ![input_doc] = g], "open")
    /\ input_doc' = Len(handles) + 1
    /\ pc' = "except_read"
    /\ UNCHANGED <<segVars, filename, file, lines, pending, docs, doc_i,
                   stdout, stderr, exitcode, nlp_log>>

\* line 119: input_doc.readlines() under cp1252, inside the first handler.
\* Lines 121-122 (the diagnostic and sys.exit(1)) run only if the second
\* except clause is the target.
ReadCp1252 ==
    /\ pc = "except_read"
    /\ IF "cp1252" \in file.decodes
       THEN /\ lines' = [bound |-> TRUE, val |-> file.content]
            /\ UNCHANGED <<pending, stderr>>
       ELSE /\ UNCHANGED lines
            /\ IF ExceptTarget("except_1", "UnicodeDecodeError") = "except_2"
               THEN /\ stderr' = Append(stderr,
                           [kind |-> "line", text |-> Diagnostic(filename)])
                    /\ pending' = "SystemExit"
               ELSE /\ pending' = "UnicodeDecodeError"
                    /\ UNCHANGED stderr
    /\ pc' = "finally"
    /\ UNCHANGED <<segVars, filename, file, handles, input_doc, docs, doc_i,
                   stdout, exitcode, nlp_log>>

\* line 124: input_doc.close(); input_doc is unbound when open() raised
FinallyClose ==
    /\ pc = "finally"
    /\ IF input_doc = 0
       THEN /\ Uncaught("UnboundLocalError", 124)
            /\ UNCHANGED handles
       ELSE /\ handles' = [handles EXCEPT ![input_doc] = "closed"]
            /\ pc' = "finally_segment"
            /\ UNCHANGED <<pending, stderr, exitcode>>
    /\ UNCHANGED <<segVars, filename, file, input_doc, lines, docs, doc_i,
                   stdout, nlp_log>>

\* line 125: documents = create_document_list(lines), still inside finally;
\* lines is unbound when no read succeeded.  A pending exception propagates
\* when the finally clause completes.
FinallySegment ==
    /\ pc = "finally_segment"
    /\ IF ~lines.bound
       THEN /\ Uncaught("UnboundLocalError", 125)
            /\ UNCHANGED docs
       ELSE /\ docs' = create_document_list(lines.val)
            /\ IF pending = "none"
               THEN pc' = "for" /\ UNCHANGED <<pending, stderr, exitcode>>
               ELSE Uncaught(pending, 125)
    /\ UNCHANGED <<segVars, filename, file, handles, input_doc, lines, doc_i,
                   stdout, nlp_log>>

\* lines 127-128: the next Document of the loop, print_header(filename)
ForHeader ==
    /\ pc = "for"
    /\ doc_i < Len(docs)
    /\ LET r == print_header(filename) IN
          IF r.raised = "none"
          THEN /\ stdout' = stdout \o r.printed
               /\ pc' = "for_h1"
               /\ UNCHANGED <<pending, stderr, exitcode>>
          ELSE /\ Uncaught(r.raised, 128)
               /\ UNCHANGED stdout
    /\ UNCHANGED <<segVars, filename, file, handles, input_doc, lines, docs,
                   doc_i, nlp_log>>

\* line 129: print_cwb(doc.header, tag='<h1>')
PrintCwbHeader ==
    /\ pc = "for_h1"
    /\ \E sents \in NlpAnswers :
          /\ stdout' = stdout \o print_cwb(sents, H1Tag)
          /\ nlp_log' = Append(nlp_log,
                 [text |-> docs[doc_i + 1].header, sents |-> sents])
    /\ pc' = "for_body"
    /\ UNCHANGED <<segVars, filename, file, handles, input_doc, lines,
                   pending, docs, doc_i, stderr, exitcode>>

\* line 130: print_cwb(doc.body), tag defaulting to '<s>'
PrintCwbBody ==
    /\ pc = "for_body"
    /\ \E sents \in NlpAnswers :
          /\ stdout' = stdout \o print_cwb(sents, STag)
          /\ nlp_log' = Append(nlp_log,
                 [text |-> docs[doc_i + 1].body, sents |-> sents])
    /\ pc' = "for_footer"
    /\ UNCHANGED <<segVars, filename, file, handles, input_doc, lines,
                   pending, docs, doc_i, stderr, exitcode>>

\* lines 64, 68: an error of the collaborator is not caught
NlpRaises ==
    /\ pc \in {"for_h1", "for_body"}
    /\ Uncaught("NlpError", IF pc = "for_h1" THEN 129 ELSE 130)
    /\ UNCHANGED <<segVars, filename, file, handles, input_doc, lines, docs,
                   doc_i, stdout, nlp_log>>

\* line 131: print_footer()
PrintFooter ==
    /\ pc = "for_footer"
    /\ stdout' = stdout \o print_footer
    /\ doc_i' = doc_i + 1
    /\ pc' = "for"
    /\ UNCHANGED <<segVars, filename, file, handles, input_doc, lines,
                   pending, docs, stderr, exitcode, nlp_log>>

\* the loop is exhausted: main returns and the process ends with status 0
ForDone ==
    /\ pc = "for"
    /\ doc_i = Len(docs)
    /\ pc' = "done"
    /\ exitcode' = 0
    /\ UNCHANGED <<segVars, filename, file, handles, input_doc, lines,
                   pending, docs, doc_i, stdout, stderr, nlp_log>>

MainNext ==
    \/ OpenUtf8
    \/ ReadUtf8
    \/ OpenCp1252
    \/ ReadCp1252
    \/ FinallyClose
    \/ FinallySegment
    \/ ForHeader
    \/ PrintCwbHeader
    \/ PrintCwbBody
    \/ NlpRaises
    \/ PrintFooter
    \/ ForDone

SpecMain == MainInit /\ [][MainNext]_vars

----------------------------------------------------------------------------
\* Claims about create_document_list (checked under SpecSeg)

Returned == seg_pc = "returned"

LastLine == lines_of_file[Len(lines_of_file)]

\* a headline line, one blank line, one body line
HeadlineBlankBody ==
    /\ Len(lines_of_file) = 3
    /\ lines_of_file[1] # NL
    /\ lines_of_file[2] = NL
    /\ lines_of_file[3] # NL

\* C1 as stated: for a headline line, a blank line and a body line,
\* create_document_list returns exactly one Document whose header is the
\* headline and whose body is the body line.
C1_OneDocument ==
    (Returned /\ HeadlineBlankBody) =>
        documents = <<[header |-> rstrip(lines_of_file[1]),
                       body |-> rstrip(lines_of_file[3])]>>

\* C1 amended: for a headline line, a blank line and a body line,
\* create_document_list returns more than one Document (two, or three when
\* the headline line and the body line are equal strings); the first has the
\* right-trimmed headline as header and an empty body, the last has the
\* right-trimmed body line as header and an empty body.
C1_TwoDocuments ==
    (Returned /\ HeadlineBlankBody) =>
        /\ Len(documents) =
               (IF lines_of_file[1] = lines_of_file[3] THEN 3 ELSE 2)
        /\ documents[1] =
               [header |-> rstrip(lines_of_file[1]), body |-> <<>>]
        /\ documents[Len(documents)] =
               [header |-> rstrip(lines_of_file[3]), body |-> <<>>]

C1_Witness ==
    /\ Returned
    /\ HeadlineBlankBody
    /\ Len(documents) = 2
    /\ documents[1].header = <<"a">>
    /\ documents[2].header = <<"b">>

BlankCount == Cardinality({i \in 1..Len(lines_of_file) : lines_of_file[i] = NL})

\* C2 as stated: the number of Documents returned equals the number of lines
\* that are exactly "\n", plus one if the last line of the file is not "\n"
\* (a boundary occurs at position i iff line i is "\n" or i is the last
\* position, also when an earlier line has the content of the last line).
C2_DocumentCount ==
    Returned =>
        Len(documents) =
            BlankCount +
            (IF Len(lines_of_file) > 0 /\ LastLine # NL THEN 1 ELSE 0)

RECURSIVE BlockRuns(_, _)
\* the maximal runs of non-blank lines of lof, cur being the run in progress
BlockRuns(lof, cur) ==
    LET flush == IF cur = <<>> THEN <<>> ELSE <<cur>> IN
    IF Len(lof) = 0 THEN flush
    ELSE IF Head(lof) = NL THEN flush \o BlockRuns(Tail(lof), <<>>)
    ELSE BlockRuns(Tail(lof), Append(cur, Head(lof)))

Trimmed(ls) == [i \in 1..Len(ls) |-> rstrip(ls[i])]

\* C7 as stated: every Document's header is the first line of its block (a
\* maximal run of non-blank lines), right-trimmed, and its body is the
\* remaining lines of the block, right-trimmed and joined by single spaces,
\* with nothing contributed by the delimiting blank line.
C7_BlocksOfNonBlankLines ==
    Returned =>
        LET B == BlockRuns(lines_of_file, <<>>) IN
        documents =
            [k \in 1..Len(B) |->
                [header |-> rstrip(B[k][1]),
                 body |-> Join(<<" ">>, Trimmed(Tail(B[k])))]]

\* the positions where a segment ends
Cuts ==
    {i \in 1..Len(lines_of_file) :
        lines_of_file[i] = NL \/ lines_of_file[i] = LastLine}

\* the k-th cut, 0 for k = 0
CutAt(k) ==
    IF k = 0 THEN 0
    ELSE CHOOSE i \in Cuts : Cardinality({j \in Cuts : j <= i}) = k

\* C7 amended: the Documents are one per segment, a segment ending at each
\* line that is exactly "\n" or equal to the last line of the file; header is
\* the first line of the segment, right-trimmed (empty when that line is
\* blank), and body is the remaining lines of the segment, the delimiting
\* blank line included as an empty element, each right-trimmed, joined by
\* single spaces.
C7_SegmentsWithDelimiter ==
    Returned =>
        /\ Len(documents) = Cardinality(Cuts)
        /\ \A k \in 1..Len(documents) :
               LET first == CutAt(k - 1) + 1
                   last == CutAt(k)
               IN /\ documents[k].header = rstrip(lines_of_file[first])
                  /\ documents[k].body =
                         Join(<<" ">>,
                              Trimmed(SubSeq(lines_of_file, first + 1, last)))

\* a block of two text lines closed by a blank line: the body ends in the
\* separator before the blank line's empty element
C7_Witness ==
    /\ Returned
    /\ Len(lines_of_file) = 3
    /\ lines_of_file[3] = NL
    /\ documents = <<[header |-> <<"a">>, body |-> <<"b", " ">>]>>

RECURSIVE Concat(_)
Concat(ss) == IF Len(ss) = 0 THEN <<>> ELSE Head(ss) \o Concat(Tail(ss))

\* C8: when create_document_list returns, the buffers handed to
\* create_document, concatenated in order, are exactly the right-trimmed
\* input lines in file order; each returned Document was made from its buffer;
\* the working buffer is empty; and create_document was never called with an
\* empty buffer.
C8_NoLineLost ==
    Returned =>
        /\ Concat(calls) = Trimmed(lines_of_file)
        /\ document = <<>>
        /\ Len(documents) = Len(calls)
        /\ \A k \in 1..Len(calls) :
               /\ Len(calls[k]) > 0
               /\ documents[k] # IndexError
               /\ documents[k].header = calls[k][1]

\* a file of two segments whose last line has no trailing newline
C8_Witness ==
    /\ Returned
    /\ Len(lines_of_file) = 3
    /\ LastLine = <<"b">>
    /\ Len(calls) = 2
    /\ Len(calls[2]) = 2

----------------------------------------------------------------------------
\* Claims about print_header (checked under SpecHdr)

HdrCalled == pc \in {"printed", "raised"}

EndsWith(s, t) ==
    Len(s) >= Len(t) /\ SubSeq(s, Len(s) - Len(t) + 1, Len(s)) = t

StartsWith(s, t) == Len(s) >= Len(t) /\ SubSeq(s, 1, Len(t)) = t

\* YYYY_MM_DD_<slug>.txt
IsDatedName(fn) ==
    /\ Len(fn) >= 15
    /\ \A i \in {1, 2, 3, 4, 6, 7, 9, 10} : fn[i] \in Digits
    /\ \A i \in {5, 8, 11} : fn[i] = "_"
    /\ EndsWith(fn, Txt)

\* C3: for a filename YYYY_MM_DD_<slug>.txt, print_header prints the single
\* line <text id="I" date="D" year="Y" month="M" day="DD">, Y, M and DD being
\* characters 1-4, 6-7 and 9-10 of the filename, D its first 10 characters,
\* and I the filename without its last 4 characters with every '-' turned
\* into '_'.
C3_HeaderOfDatedName ==
    (HdrCalled /\ IsDatedName(filename)) =>
        LET I == [i \in 1..(Len(filename) - 4) |->
                     IF filename[i] = "-" THEN "_" ELSE filename[i]]
            D == SubSeq(filename, 1, 10)
            Y == SubSeq(filename, 1, 4)
            M == SubSeq(filename, 6, 7)
            DD == SubSeq(filename, 9, 10)
        IN /\ pc = "printed"
           /\ \A i \in 1..Len(I) : I[i] # "-"
           /\ D = Y \o <<"_">> \o M \o <<"_">> \o DD
           /\ stdout =
                <<  <<"<", "t", "e", "x", "t", " ", "i", "d", "=", Q>> \o I
                 \o <<Q, " ", "d", "a", "t", "e", "=", Q>> \o D
                 \o <<Q, " ", "y", "e", "a", "r", "=", Q>> \o Y
                 \o <<Q, " ", "m", "o", "n", "t", "h", "=", Q>> \o M
                 \o <<Q, " ", "d", "a", "y", "=", Q>> \o DD
                 \o <<Q, ">">>  >>

\* a dated name whose slug holds dashes
C3_Witness ==
    /\ pc = "printed"
    /\ IsDatedName(filename)
    /\ \E i \in 12..Len(filename) : filename[i] = "-"
    /\ filename[1] # filename[2]
    /\ Len(stdout) = 1

\* C9 as stated: for every filename print_header raises no error and prints
\* exactly one <text ...> line.
C9_NeverRaises ==
    HdrCalled =>
        /\ pc = "printed"
        /\ pending = "none"
        /\ Len(stdout) = 1

UnderscoresInPrefix ==
    Cardinality({i \in 1..Len(filename) : i <= 10 /\ filename[i] = "_"})

\* C9 amended: print_header completes and prints exactly one <text ...> line
\* when the first 10 characters of the filename hold at least two '_';
\* otherwise it raises IndexError and prints nothing.
C9_RaisesOnShortSplit ==
    HdrCalled =>
        IF UnderscoresInPrefix >= 2
        THEN /\ pc = "printed"
             /\ pending = "none"
             /\ Len(stdout) = 1
             /\ StartsWith(stdout[1], TextTag \o <<" ">>)
             /\ EndsWith(stdout[1], <<Q, ">">>)
        ELSE /\ pc = "raised"
             /\ pending = "IndexError"
             /\ stdout = <<>>

\* a name that raises although it holds two '_', one of them past the prefix
C9_Witness ==
    /\ pc = "raised"
    /\ Len(filename) > 10
    /\ Len(Split(filename, "_")) >= 3

----------------------------------------------------------------------------
\* Claims about main (checked under SpecMain)

Terminated == pc \in {"done", "exit"}

BothDecodesFail == file.exists /\ file.decodes = {}

\* C4 as stated: when the file decodes neither as UTF-8 nor as cp1252, the
\* run ends having written the one line 'Could not convert file: <filename>'
\* to the error stream, with exit code 1.
C4_AbortDiagnostic ==
    (Terminated /\ BothDecodesFail) =>
        /\ stderr = <<[kind |-> "line", text |-> Diagnostic(filename)]>>
        /\ exitcode = 1

\* the positions of main after the read phase
AfterReadPhase ==
    pc \in {"finally_segment", "for", "for_h1", "for_body", "for_footer", "done"}

\* C5 as stated: on every path of the read phase every file handle opened on
\* the input file is closed before segmentation or emission starts, and the
\* release step (line 124) never fails.
C5_HandlesReleased ==
    /\ AfterReadPhase => \A h \in 1..Len(handles) : handles[h] = "closed"
    /\ \A e \in 1..Len(stderr) :
           ~(stderr[e].kind = "traceback" /\ stderr[e].line = 124)

\* Line kinds of the output stream
HasTab(l) == \E i \in 1..Len(l) : l[i] = "\t"

IsTextOpen(l) ==
    /\ StartsWith(l, <<"<", "t", "e", "x", "t", " ">>)
    /\ EndsWith(l, <<">">>)
    /\ ~HasTab(l)

\* three tab-separated fields
IsTokenLine(l) == Cardinality({i \in 1..Len(l) : l[i] = "\t"}) = 2

\* the block grammar, read line by line: q is "top" between blocks, "head"
\* after the open line while <h1> groups may come, "body" once an <s> group
\* has come, "in_h1" / "in_s" inside a group, "bad" after a line that fits
\* nowhere
Delta(q, l) ==
    CASE q = "top" /\ IsTextOpen(l) -> "head"
      [] q = "head" /\ l = <<"<", "h", "1", ">">> -> "in_h1"
      [] q \in {"head", "body"} /\ l = <<"<", "s", ">">> -> "in_s"
      [] q \in {"head", "body"} /\ l = <<"<", "/", "t", "e", "x", "t", ">">> -> "top"
      [] q = "in_h1" /\ IsTokenLine(l) -> "in_h1"
      [] q = "in_h1" /\ l = <<"<", "/", "h", "1", ">">> -> "head"
      [] q = "in_s" /\ IsTokenLine(l) -> "in_s"
      [] q = "in_s" /\ l = <<"<", "/", "s", ">">> -> "body"
      [] OTHER -> "bad"

RECURSIVE Parse(_, _)
Parse(q, out) == IF Len(out) = 0 THEN q ELSE Parse(Delta(q, Head(out)), Tail(out))

CountLines(out, l) == Cardinality({i \in 1..Len(out) : out[i] = l})

RECURSIVE SumLen(_)
SumLen(ss) == IF Len(ss) = 0 THEN 0 ELSE Len(Head(ss)) + SumLen(Tail(ss))

\* the collaborator's answers for the headers (odd calls) and bodies (even)
HeaderAnswers == [k \in 1..Len(docs) |-> nlp_log[2 * k - 1].sents]
BodyAnswers == [k \in 1..Len(docs) |-> nlp_log[2 * k].sents]

C10_NoOutputBeforeSegmentation ==
    /\ stdout # <<>> =>
           /\ lines.bound
           /\ file.exists /\ file.decodes # {}
           /\ pc \in {"for", "for_h1", "for_body", "for_footer", "done", "exit"}
           /\ docs = create_document_list(lines.val)
    /\ (Terminated /\ BothDecodesFail) => stdout = <<>>

\* a run that ended after both decodes failed
C10_Witness ==
    /\ pc = "exit"
    /\ BothDecodesFail
    /\ Len(handles) = 2
    /\ stdout = <<>>

====
